---------------------------- MODULE Spec2Model ----------------------------
(***************************************************************************)
(* Model of memoryMonitor (monitor.ts): one supervised run of a child      *)
(* process on the Node.js event loop.  Every action is one turn of the     *)
(* event loop (a macrotask with the microtasks it triggers): the           *)
(* synchronous prefix of memoryMonitor, a timer callback, the completion   *)
(* of a `ps` memory read with the continuation awaiting it, a child        *)
(* process event, or the completion of the summary file update.  With it   *)
(* come updateSummaryFile (fileHelpers.ts) on a summary file of its own,   *)
(* one call per step, and the exit status of etl-run (run.ts).             *)
(***************************************************************************)
EXTENDS Integers, Sequences, FiniteSets, TLC

(***************************************************************************)
(* Bounds of the model.                                                    *)
(***************************************************************************)
MaxTicks == 2      \* timer callbacks (interval or observer) per run
MaxCalls == 3      \* updateSummaryFile calls on one summary file

(***************************************************************************)
(* Program constants.                                                      *)
(***************************************************************************)
KillExitCode == 137        \* stats.exitCode set after SIGKILL
NullExitCode == 1          \* exit code reported when close carries null
CliFailureCode == 1        \* process.exit(1) of etl-run, and `|| 1`
ExitStatusRange == 256     \* a process exit status is one byte
EarlyPhaseMs == 5000       \* runTime > 5000
MiddlePhaseMs == 60000     \* runTime > 60000
ObserverPeriodMs == 5000   \* setInterval(..., 5000)
KBPerMB == 1024            \* memKB / 1024
MsPerSecond == 1000        \* / 1000

\* Encodings of values that are not numbers in the program.
NullCode == -1             \* `code === null`: the child was ended by a signal
ENOENT == -2               \* exit code carried by 'close' after a failed spawn

\* Inputs: wall-clock instants (ms since start), ps readings (KB), exit codes.
Instants == {0, 5600, 61000}
KBValues == {0, 1536, 3000}
ExitCodes == {0, 3}
MemoryLimits == {2}
CheckIntervals == {0, 2}

(***************************************************************************)
(* Pure helpers.                                                           *)
(***************************************************************************)
\* Math.round(a / b) for a >= 0, b > 0: halves round up.
JsRound(a, b) == (2 * a + b) \div (2 * b)

MaxOf(a, b) == IF a >= b THEN a ELSE b

(***************************************************************************)
(* Log lines are sequences of tokens: literal text or a decimal number.    *)
(***************************************************************************)
Lit(s) == [s |-> s, n |-> -1]
Num(n) == [s |-> "#", n |-> n]
IsNum(t) == t.s = "#" /\ t.n >= 0

\* `[${elapsed}s] Memory: ${memMB}MB`
SampleLine(elapsed, memMB) ==
    << Lit("["), Num(elapsed), Lit("s] Memory: "), Num(memMB), Lit("MB") >>

\* `Memory usage exceeded ${limit}MB (actual: ${memMB}MB). Killing process (${pid}).`
KillLine(limit, memMB) ==
    << Lit("Memory usage exceeded "), Num(limit), Lit("MB (actual: "),
       Num(memMB), Lit("MB). Killing process ("), Lit("pid"), Lit(").") >>

HeaderStartLine == << Lit("Starting ETL job at "), Lit("startTime") >>
HeaderLimitLine(limit) == << Lit("Memory limit set to "), Num(limit), Lit("MB") >>
LightweightLine == << Lit("Using lightweight monitoring mode (minimal CPU usage)") >>

\* `ETL job completed with exit code ${exitCode} after ${duration}`
CompletionLine(exitCode, durationMs) ==
    << Lit("ETL job completed with exit code "), [s |-> "int", n |-> exitCode],
       Lit(" after "), Num(durationMs), Lit("ms") >>

\* `Memory usage: avg ${avg}MB, max ${max}MB`
MemorySummaryLine(avg, max) ==
    << Lit("Memory usage: avg "), Num(avg), Lit("MB, max "), Num(max), Lit("MB") >>

\* `[stdout] ${output.trim()}`
OutputLine(text) == << Lit("[stdout] ") >> \o text

\* What the child may print, as the chunks its 'data' events carry: nothing,
\* plain text, or text shaped like a sample line.
ChildOutputs == { << >>, << << Lit("rows loaded") >> >>, << SampleLine(7, 9) >> }

\* memoryRegex = /\[(\d+)s\] Memory: (\d+)MB/ matched at token position i.
MatchesAt(line, i) ==
    /\ i + 4 <= Len(line)
    /\ line[i] = Lit("[")
    /\ IsNum(line[i + 1])
    /\ line[i + 2] = Lit("s] Memory: ")
    /\ IsNum(line[i + 3])
    /\ line[i + 4] = Lit("MB")

\* line.match(memoryRegex): the leftmost match anywhere in the line, 0 if none.
MatchPos(line) ==
    IF \E i \in 1..Len(line) : MatchesAt(line, i)
    THEN CHOOSE i \in 1..Len(line) :
            MatchesAt(line, i) /\ \A j \in 1..(i - 1) : ~MatchesAt(line, j)
    ELSE 0

\* extractMemoryData: one point per matching line, in file order.
RECURSIVE extractMemoryData(_)
extractMemoryData(lines) ==
    IF lines = <<>> THEN <<>>
    ELSE LET p == MatchPos(lines[1])
         IN  (IF p > 0
              THEN << [elapsed |-> lines[1][p + 1].n, mb |-> lines[1][p + 3].n] >>
              ELSE <<>>) \o extractMemoryData(Tail(lines))

(***************************************************************************)
(* The summary file and updateSummaryFile (fileHelpers.ts).                *)
(*                                                                         *)
(* A JavaScript value is a record: its type, its elements (of an array)    *)
(* and its `runs` property, a sequence that is empty when the value has no *)
(* such property and holds the property's value otherwise.                 *)
(***************************************************************************)
JsValue(t, items, runs) == [t |-> t, items |-> items, runs |-> runs]

JsNull == JsValue("null", << >>, << >>)
JsNumber == JsValue("number", << >>, << >>)
JsString == JsValue("string", << >>, << >>)
JsArray(items) == JsValue("array", items, << >>)
JsObject(runs) == JsValue("object", << >>, runs)

\* A file text is the serialization of a JSON document, whole or cut short
\* (which no parser accepts).
FileText(whole, json) == [whole |-> whole, json |-> json]

NoFile == [exists |-> FALSE, text |-> FileText(FALSE, JsNull)]
FileOf(text) == [exists |-> TRUE, text |-> text]

\* JSON.parse(fileContent): the document, or a SyntaxError.
JSONParse(text) == [threw |-> ~text.whole, value |-> text.json]

\* JSON.stringify(value, null, 2): an array is written as its elements alone,
\* a property set on the array object is not part of the text.
JSONStringify(v) ==
    FileText(TRUE, IF v.t = "array" THEN [v EXCEPT !.runs = << >>] ELSE v)

\* !summaryData.runs, for a value the property can be read from.
LacksRuns(v) == v.runs = << >> \/ v.runs[1].t = "null"

\* Variant: the run list starts afresh on every call.
WithNewRun_Overwrites(v, newRunData) ==
    [v EXCEPT !.runs = << JsArray(<< newRunData >>) >>]

\* if (!summaryData.runs) summaryData.runs = []; summaryData.runs.push(newRunData)
WithNewRun(v, newRunData) ==
    IF LacksRuns(v)
    THEN [v EXCEPT !.runs = << JsArray(<< newRunData >>) >>]
    ELSE [v EXCEPT !.runs[1].items = Append(@, newRunData)]

\* The failures of the file system: of mkdir, of readFile, of writeFile when
\* it opens the file, of writeFile after it has truncated the file.
IOOutcomes == {"ok", "mkdir_fails", "read_fails", "open_fails", "write_fails"}

\* updateSummaryFile(summaryFilePath, newRunData) on file f: the file it
\* leaves and whether it threw.
updateSummaryFile(f, newRunData, io) ==
    LET fresh == JsObject(<< JsArray(<< >>) >>)
        parsed == IF f.exists /\ io # "read_fails" /\ ~JSONParse(f.text).threw
                  THEN JSONParse(f.text).value
                  ELSE fresh
        \* reading .runs of null, setting it on a primitive, and calling
        \* push on a value that has none each throw a TypeError
        typeError ==
            \/ parsed.t = "null"
            \/ LacksRuns(parsed) /\ parsed.t \notin {"object", "array"}
            \/ ~LacksRuns(parsed) /\ parsed.runs[1].t # "array"
        summaryData == WithNewRun(parsed, newRunData)
    IN  IF io = "mkdir_fails" \/ typeError \/ io = "open_fails"
        THEN [file |-> f, threw |-> TRUE]
        ELSE IF io = "write_fails"
        THEN [file |-> FileOf(FileText(FALSE, JSONStringify(summaryData).json)),
              threw |-> TRUE]
        ELSE [file |-> FileOf(JSONStringify(summaryData)), threw |-> FALSE]

(***************************************************************************)
(* State of one run.                                                       *)
(***************************************************************************)
VARIABLES
    cfg,          \* fullConfig, whether spawn finds the executable, and what
                  \* the child prints
    now,          \* Date.now(), ms
    pcMain,       \* memoryMonitor: "call", "awaitInit" (line 269), "listening",
                  \* "aborted" (a header writeLog threw)
    pcClose,      \* main close handler: "idle", "awaitFinal", "saving", "done",
                  \* "threw" (a closing writeLog threw)
    child,        \* "none", "failed", "running", "exited" ('close' not yet
                  \* emitted), "closed"
    childCode,    \* exit outcome carried by 'close' (NullCode: ended by a signal)
    errorPending, \* the 'error' event of a failed spawn is queued (nextTick)
    reads,        \* pending getMemoryKB calls, one per suspended checkMemoryOnce
    stats,        \* MemoryStats accumulator
    log,          \* lines of the log file
    samples,      \* samples added to the accumulator, in order, each with the
                  \* check that took it
    isStartPhaseComplete,
    isMiddlePhaseComplete,
    timer,        \* interval / observer: "unset", "set", "cleared"
    timerSetAt,   \* instant at which setInterval was called
    ticks,        \* timer callbacks run so far
    outputs,      \* 'data' events delivered so far
    killCalls,    \* childProcess.kill('SIGKILL') calls
    result,       \* MonitorResult built by the close handler, or NoResult
    summary,      \* runs array of the summary file
    settled,      \* the returned promise: "pending", "resolved", "rejected"
    resolveCalls, \* calls of resolve(result)
    closeLost,    \* 'close' was emitted with no listener registered
    crashed,      \* an 'error' event with no listener, or an exception nothing
                  \* catches, ended the host process
    effects,      \* what the latest turn did to the child, the accumulator,
                  \* the sample lines and the result, in program order
    cliExit,      \* exit status of the etl-run process when memoryMonitor is called
                  \* from run.ts: empty while it runs, then the one status
    file,         \* the summary file as updateSummaryFile sees it
    calls,        \* the updateSummaryFile calls made on `file`, in order
    racers,       \* the updateSummaryFile calls of runs that complete at the
                  \* same time, each suspended at one of its awaits
    env,          \* the globals getRuntime looks at: Deno, Bun and process
    detected      \* the latest call of getRuntime: the globals it saw and what
                  \* it returned, or NotDetected

vars == << cfg, now, pcMain, pcClose, child, childCode, errorPending, reads, stats,
           log, samples, isStartPhaseComplete, isMiddlePhaseComplete, timer,
           timerSetAt, ticks, outputs, killCalls, result, summary,
           settled, resolveCalls, closeLost, crashed, effects, cliExit, file, calls,
           racers, env, detected >>

\* The summary store on its own: updateSummaryFile called directly.
storeVars == << file, calls, racers, env, detected >>

\* The host the tool is started on: Node.js, where `process` is defined and
\* process.versions has `node` and no `bun`.
NodeHost == [Deno |-> FALSE, Bun |-> FALSE, process |-> "versions",
             bun |-> FALSE, node |-> TRUE]

NotDetected == << >>

\* No run completes at the same time as another.
NoRacers == << >>

NoResult == [exitCode |-> NullCode, durationMs |-> 0, avgMemoryMB |-> 0,
             maxMemoryMB |-> 0, status |-> "none"]

Lightweight == cfg.checkInterval = 0

\* The writeLog calls that fail (writeFileSync throws) in a run: none, the
\* header lines, the sample lines, the kill message, the captured output
\* lines or the closing lines.
LogFailures == {"never", "header", "sample", "kill", "output", "closing"}

Configs == [killOnLimit : BOOLEAN, memoryLimit : MemoryLimits,
            checkInterval : CheckIntervals, spawnOk : BOOLEAN,
            output : ChildOutputs, logFails : LogFailures]

\* Variant: no write of the log throws.
WriteLogThrows_Never(kind) == FALSE

\* writeFileSync(logFilePath, ...) throws for the lines of this kind.
WriteLogThrows(kind) == cfg.logFails = kind

\* The state at the call of memoryMonitor, but for its configuration.
RunInit ==
    /\ now = 0
    /\ pcMain = "call"
    /\ pcClose = "idle"
    /\ child = "none"
    /\ childCode = NullCode
    /\ errorPending = FALSE
    /\ reads = <<>>
    /\ stats = [maxMemoryMB |-> 0, totalMemoryMB |-> 0, sampleCount |-> 0,
                startTime |-> 0, endTime |-> -1, exitCode |-> NullCode,
                status |-> "null"]
    /\ log = <<>>
    /\ samples = <<>>
    /\ isStartPhaseComplete = FALSE
    /\ isMiddlePhaseComplete = FALSE
    /\ timer = "unset"
    /\ timerSetAt = 0
    /\ ticks = 0
    /\ outputs = 0
    /\ killCalls = 0
    /\ result = NoResult
    /\ summary = <<>>
    /\ settled = "pending"
    /\ resolveCalls = 0
    /\ closeLost = FALSE
    /\ crashed = FALSE
    /\ effects = <<>>
    /\ cliExit = << >>

Init ==
    /\ cfg \in { c \in Configs : c.logFails = "never" }
    /\ RunInit
    /\ file = NoFile
    /\ calls = << >>
    /\ racers = NoRacers
    /\ env = NodeHost
    /\ detected = NotDetected

(***************************************************************************)
(* checkMemoryOnce, after `await getMemoryKB(pid)` has returned memKB.     *)
(***************************************************************************)
\* Variant: the limit check without the killOnLimit flag.
ExceedsLimit_IgnoresFlag(memMB) == memMB > cfg.memoryLimit

\* fullConfig.killOnLimit && memMB > fullConfig.memoryLimit
ExceedsLimit(memMB) == cfg.killOnLimit /\ memMB > cfg.memoryLimit

\* Variant: the maximum replaced by the latest sample.
UpdateStats_LatestAsMax(st, memMB) ==
    [st EXCEPT !.sampleCount = @ + 1,
               !.totalMemoryMB = @ + memMB,
               !.maxMemoryMB = memMB]

\* stats.sampleCount++; stats.totalMemoryMB += memMB; stats.maxMemoryMB = max(...)
UpdateStats(st, memMB) ==
    [st EXCEPT !.sampleCount = @ + 1,
               !.totalMemoryMB = @ + memMB,
               !.maxMemoryMB = MaxOf(@, memMB)]

\* stats.endTime = Date.now(); stats.exitCode = 137; stats.status = 'KILLED'
MarkKilled(st) ==
    [st EXCEPT !.endTime = now, !.exitCode = KillExitCode, !.status = "KILLED"]

\* The side effects of the body in program order, for a reading that is
\* recorded (memKB > 0), whose line is logged, and which leads to the kill.
\* A writeLog that throws ends the body at that call: the catch of
\* checkMemoryOnce reports the error and the check returns.
CheckEffects(recorded, logged, killed) ==
    (IF recorded THEN << "stats" >> ELSE << >>)
    \o (IF logged THEN << "log_sample", "limit_check" >> ELSE << >>)
    \o (IF killed THEN << "log_kill", "kill", "mark_killed" >> ELSE << >>)

\* Variant: the seconds within the current minute.
ElapsedSeconds_WithinMinute(startTime) ==
    JsRound(now - startTime, MsPerSecond) % (MiddlePhaseMs \div MsPerSecond)

\* Math.round((Date.now() - stats.startTime) / 1000), taken when the read
\* has returned.
ElapsedSeconds(startTime) == JsRound(now - startTime, MsPerSecond)

\* Variant: the sentinel 0 taken for a reading.
IsReading_AcceptsZero(memKB) == memKB >= 0

\* if (memKB > 0)
IsReading(memKB) == memKB > 0

CheckMemoryOnce(memKB, who) ==
    LET memMB == JsRound(memKB, KBPerMB)
        elapsed == ElapsedSeconds(stats.startTime)
        recorded == IsReading(memKB)
        logged == recorded /\ ~WriteLogThrows("sample")
        killed == logged /\ ExceedsLimit(memMB) /\ ~WriteLogThrows("kill")
        st1 == IF recorded THEN UpdateStats(stats, memMB) ELSE stats
    IN  [ stats |-> IF killed THEN MarkKilled(st1) ELSE st1,
          log |-> log
                  \o (IF logged THEN << SampleLine(elapsed, memMB) >> ELSE << >>)
                  \o (IF killed THEN << KillLine(cfg.memoryLimit, memMB) >> ELSE << >>),
          samples |-> samples
                  \o (IF recorded
                      THEN << [elapsed |-> elapsed, mb |-> memMB, who |-> who] >>
                      ELSE << >>),
          kill |-> killed,
          effects |-> CheckEffects(recorded, logged, killed) ]

\* Variant: a kill ends the child whatever its state, so a child that has
\* closed ends, and closes, once more.
ChildAfterKill_EndsAgain(kill) == IF kill THEN "exited" ELSE child

\* childProcess.kill('SIGKILL'): ends a running child; the close event then
\* carries a null code.  On a child that has ended it changes nothing.
ChildAfterKill(kill) == IF kill /\ child = "running" THEN "exited" ELSE child
CodeAfterKill(kill) == IF kill /\ child = "running" THEN NullCode ELSE childCode

\* `ps -o rss= -p pid` reports memory only for a live process.
Alive(ch) == ch = "running"

(***************************************************************************)
(* The main close handler from clearInterval to the summaryData object.    *)
(***************************************************************************)
\* Variant: the code of the close event is passed on as it is.
ExitCodeOf_KeepsNull(code) == code

\* const exitCode = code === null ? 1 : code
ExitCodeOf(code) == IF code = NullCode THEN NullExitCode ELSE code

\* Variant: a KILLED mark set by checkMemoryOnce survives a non-zero exit.
FinalStatus_KeepsKilled(st, exitCode) ==
    IF exitCode = 0 THEN "SUCCESS"
    ELSE IF st.status = "KILLED" THEN "KILLED" ELSE "FAILED"

\* stats.status = exitCode === 0 ? 'SUCCESS' : 'FAILED'
FinalStatus(st, exitCode) == IF exitCode = 0 THEN "SUCCESS" ELSE "FAILED"

\* stats.sampleCount > 0 ? Math.round(stats.totalMemoryMB / stats.sampleCount) : 0
AvgMemory(st) ==
    IF st.sampleCount > 0 THEN JsRound(st.totalMemoryMB, st.sampleCount) ELSE 0

\* When the writeLog of the completion message throws, the async handler
\* ends there with a rejection nothing handles: no result, no resolve.
Synthesize(st, lg, code) ==
    LET exitCode == ExitCodeOf(code)
        st1 == [st EXCEPT !.endTime = now, !.exitCode = exitCode,
                          !.status = FinalStatus(st, exitCode)]
        avg == AvgMemory(st1)
    IN  IF WriteLogThrows("closing")
        THEN [ threw |-> TRUE, stats |-> st1, log |-> lg, result |-> NoResult,
               effects |-> << "clear_interval", "final_stats" >> ]
        ELSE [ threw |-> FALSE,
               stats |-> st1,
               log |-> lg \o << CompletionLine(exitCode, st1.endTime - st1.startTime),
                                MemorySummaryLine(avg, st1.maxMemoryMB) >>,
               result |-> [exitCode |-> exitCode,
                           durationMs |-> st1.endTime - st1.startTime,
                           avgMemoryMB |-> avg,
                           maxMemoryMB |-> st1.maxMemoryMB,
                           status |-> st1.status],
               effects |-> << "clear_interval", "final_stats", "log_done", "synth" >> ]

\* The close handler after Synthesize: on to updateSummaryFile, or ended by
\* the throw.
AfterSynthesize(syn) == IF syn.threw THEN "threw" ELSE "saving"

\* An unhandled exception in a listener ends the host process; an unhandled
\* rejection of an async listener ends it or is only reported, depending on
\* the runtime and its settings.
UnhandledRejection(threw) == IF threw THEN BOOLEAN ELSE {crashed}

\* summaryData, built in the same turn as the result.
SummaryEntry(res) ==
    [exit_code |-> res.exitCode, duration |-> res.durationMs,
     avg_memory_mb |-> res.avgMemoryMB, max_memory_mb |-> res.maxMemoryMB,
     status |-> res.status]

Synthesized == pcClose \in {"saving", "done"}

(***************************************************************************)
(* etl-run (run.ts): what the process exits with once the promise of       *)
(* memoryMonitor settles.  The continuation of `await memoryMonitor(...)`  *)
(* runs in the turn that settles the promise.                              *)
(***************************************************************************)
\* a || b for numbers
JsOr(a, b) == IF a # 0 THEN a ELSE b

\* Variant: every failure reported with the generic failure code.
CliExitCode_FlatFailure(res) == IF res.exitCode = 0 THEN 0 ELSE CliFailureCode

\* if (result && result.exitCode === 0) process.exit(0)
\* else process.exit(result?.exitCode || 1)
CliExitCode(res) ==
    IF res.exitCode = 0 THEN 0 ELSE JsOr(res.exitCode, CliFailureCode)

\* process.exit(code): the status the operating system reports.
ProcessExit(code) == << code % ExitStatusRange >>

\* catch (error) { ...; process.exit(1) }.  A process ended by an uncaught
\* exception exits with status 1 as well.
CliFailure == ProcessExit(CliFailureCode)

\* The exit status after a turn: the first exit is the only one.
CliAfter(exit) == IF cliExit = << >> THEN exit ELSE cliExit

(***************************************************************************)
(* Actions.                                                                *)
(***************************************************************************)
Read(who, alive, runTime) == [who |-> who, alive |-> alive, runTime |-> runTime]

RemoveAt(seq, i) == SubSeq(seq, 1, i - 1) \o SubSeq(seq, i + 1, Len(seq))

\* Side effects of the synchronous prefix of memoryMonitor, in program order.
StartEffects ==
    << "spawn", "header", "header" >>
    \o (IF Lightweight THEN << "log_mode", "read" >> ELSE << "set_interval", "listen" >>)

\* memoryMonitor up to its first suspension: spawn, header lines, then either
\* the initial check of lightweight mode (awaited before any listener is
\* registered) or setInterval and the listeners.
\* A header writeLog that throws makes the async function reject there, the
\* child already spawned: nothing is set up.
Start ==
    /\ pcMain = "call"
    /\ child' = IF cfg.spawnOk THEN "running" ELSE "failed"
    /\ errorPending' = ~cfg.spawnOk
    /\ IF WriteLogThrows("header")
       THEN /\ pcMain' = "aborted"
            /\ settled' = "rejected"
            /\ cliExit' = CliFailure
            /\ effects' = << "spawn" >>
            /\ UNCHANGED << log, reads, timer, timerSetAt >>
       ELSE /\ log' = << HeaderStartLine, HeaderLimitLine(cfg.memoryLimit) >>
                      \o (IF Lightweight THEN << LightweightLine >> ELSE << >>)
            /\ IF Lightweight
               THEN /\ pcMain' = "awaitInit"
                    /\ reads' = << Read("init", cfg.spawnOk, 0) >>
                    /\ UNCHANGED << timer, timerSetAt >>
               ELSE /\ pcMain' = "listening"
                    /\ timer' = "set"
                    /\ timerSetAt' = now
                    /\ UNCHANGED reads
            /\ effects' = StartEffects
            /\ UNCHANGED << settled, cliExit >>
    /\ UNCHANGED << cfg, now, pcClose, childCode, stats, samples,
                    isStartPhaseComplete, isMiddlePhaseComplete, ticks, outputs,
                    killCalls, result, summary, resolveCalls,
                    closeLost, crashed >>
    /\ UNCHANGED storeVars

\* Time passes.
Advance(t) ==
    /\ pcMain # "call"
    /\ ~crashed
    /\ ~errorPending
    /\ t > now
    /\ now' = t
    /\ UNCHANGED << cfg, pcMain, pcClose, child, childCode, errorPending, reads,
                    stats, log, samples, isStartPhaseComplete,
                    isMiddlePhaseComplete, timer, timerSetAt, ticks, outputs,
                    killCalls, result, summary, settled, resolveCalls,
                    closeLost, crashed, effects >>
    /\ UNCHANGED storeVars
    /\ UNCHANGED cliExit

\* The 'error' event of a failed spawn, emitted on the next tick.  With the
\* listener registered it runs the error handler; the child then emits
\* 'close' with the errno as code.  With no listener the event is thrown.
ErrorEvent ==
    /\ errorPending
    /\ ~crashed
    /\ errorPending' = FALSE
    /\ cliExit' = CliAfter(CliFailure)
    /\ IF pcMain = "listening"
       THEN /\ timer' = IF ~Lightweight /\ timer = "set" THEN "cleared" ELSE timer
            /\ settled' = IF settled = "pending" THEN "rejected" ELSE settled
            /\ child' = "exited"
            /\ childCode' = ENOENT
            /\ effects' = << >>
            /\ UNCHANGED crashed
       ELSE /\ crashed' = TRUE
            /\ effects' = << >>
            /\ UNCHANGED << timer, settled, child, childCode >>
    /\ UNCHANGED << cfg, now, pcMain, pcClose, reads, stats, log, samples,
                    isStartPhaseComplete, isMiddlePhaseComplete, timerSetAt, ticks,
                    outputs, killCalls, result, summary, resolveCalls,
                    closeLost >>
    /\ UNCHANGED storeVars

\* The child ends on its own with exit code c.
ChildExit(c) ==
    /\ child = "running"
    /\ ~crashed
    /\ child' = "exited"
    /\ childCode' = c
    /\ UNCHANGED << cfg, now, pcMain, pcClose, errorPending, reads, stats, log,
                    samples, isStartPhaseComplete, isMiddlePhaseComplete, timer,
                    timerSetAt, ticks, outputs, killCalls, result,
                    summary, settled, resolveCalls, closeLost, crashed, effects >>
    /\ UNCHANGED storeVars
    /\ UNCHANGED cliExit

\* A stdout/stderr 'data' event: writeLog(`[stdout] ${output.trim()}`).
ChildOutput ==
    /\ pcMain = "listening"
    /\ cfg.spawnOk
    /\ child \in {"running", "exited"}
    /\ ~crashed
    /\ outputs < Len(cfg.output)
    /\ outputs' = outputs + 1
    /\ IF WriteLogThrows("output")
       THEN crashed' = TRUE /\ cliExit' = CliAfter(CliFailure) /\ UNCHANGED log
       ELSE /\ log' = Append(log, OutputLine(cfg.output[outputs + 1]))
            /\ UNCHANGED << crashed, cliExit >>
    /\ effects' = << >>
    /\ UNCHANGED << cfg, now, pcMain, pcClose, child, childCode, errorPending,
                    reads, stats, samples, isStartPhaseComplete,
                    isMiddlePhaseComplete, timer, timerSetAt, ticks, killCalls,
                    result, summary, settled, resolveCalls, closeLost >>
    /\ UNCHANGED storeVars

\* Interval mode: setInterval(checkMemoryOnce, checkInterval * 1000) fires and
\* checkMemoryOnce suspends at `await getMemoryKB(pid)`.
IntervalTick ==
    /\ ~Lightweight
    /\ timer = "set"
    /\ ~crashed
    /\ ~errorPending
    /\ ticks < MaxTicks
    /\ now >= timerSetAt + cfg.checkInterval * MsPerSecond * (ticks + 1)
    /\ ticks' = ticks + 1
    /\ reads' = Append(reads, Read("tick", Alive(child), 0))
    /\ effects' = << >>
    /\ UNCHANGED << cfg, now, pcMain, pcClose, child, childCode, errorPending,
                    stats, log, samples, isStartPhaseComplete,
                    isMiddlePhaseComplete, timer, timerSetAt, outputs, killCalls, result, summary, settled, resolveCalls, closeLost,
                    crashed >>
    /\ UNCHANGED storeVars
    /\ UNCHANGED cliExit

\* !isStartPhaseComplete && runTime > 5000
EarlyDue(runTime) == ~isStartPhaseComplete /\ runTime > EarlyPhaseMs

\* !isMiddlePhaseComplete && runTime > 60000
MiddleDue(done, runTime) == ~done /\ runTime > MiddlePhaseMs

\* Lightweight mode: the observer callback up to its first suspension.
ObserverTick ==
    /\ Lightweight
    /\ timer = "set"
    /\ ~crashed
    /\ ticks < MaxTicks
    /\ now >= timerSetAt + ObserverPeriodMs * (ticks + 1)
    /\ ticks' = ticks + 1
    /\ LET runTime == now - stats.startTime
       IN  reads' = IF EarlyDue(runTime)
                    THEN Append(reads, Read("early", Alive(child), runTime))
                    ELSE IF MiddleDue(isMiddlePhaseComplete, runTime)
                    THEN Append(reads, Read("middle", Alive(child), runTime))
                    ELSE reads
    /\ effects' = << >>
    /\ UNCHANGED << cfg, now, pcMain, pcClose, child, childCode, errorPending,
                    stats, log, samples, isStartPhaseComplete,
                    isMiddlePhaseComplete, timer, timerSetAt, outputs, killCalls, result, summary, settled, resolveCalls, closeLost,
                    crashed >>
    /\ UNCHANGED storeVars
    /\ UNCHANGED cliExit

\* Variant: a check that issues the kill goes on to build the result.
BuildsResult_OnKill(who, kill) == who = "final" \/ kill

\* The result is built by the close handler alone: after its awaited final
\* check in lightweight mode (and in the turn of the close event in interval
\* mode); checkMemoryOnce itself returns after the kill.
BuildsResult(who, kill) == who = "final"

\* A pending `ps` returns memKB: the rest of checkMemoryOnce runs, then the
\* continuation of whoever awaited it, up to its next suspension.
\*   init:   memoryMonitor sets the observer and registers every listener
\*   early:  isStartPhaseComplete = true, then the middle check if due
\*   middle: isMiddlePhaseComplete = true
\*   final:  the close handler goes on to build the result
\*   tick:   nothing
CompleteRead(i, memKB) ==
    /\ i \in 1..Len(reads)
    /\ ~crashed
    /\ ~errorPending
    /\ reads[i].alive \/ memKB = 0
    /\ \E r \in {reads[i]}, c \in {CheckMemoryOnce(memKB, reads[i].who)} :
       LET rest == RemoveAt(reads, i)
           ch == ChildAfterKill(c.kill)
           syn == Synthesize(c.stats, c.log, childCode)
       IN  /\ samples' = c.samples
           /\ killCalls' = killCalls + (IF c.kill THEN 1 ELSE 0)
           /\ child' = ch
           /\ childCode' = CodeAfterKill(c.kill)
           /\ IF BuildsResult(r.who, c.kill)
              THEN \E s \in {syn} :
                   /\ stats' = s.stats
                   /\ log' = s.log
                   /\ result' = s.result
                   /\ pcClose' = AfterSynthesize(s)
                   /\ crashed' \in UnhandledRejection(s.threw)
                   /\ cliExit' = IF crashed' THEN CliAfter(CliFailure) ELSE cliExit
                   /\ effects' = c.effects \o s.effects
              ELSE /\ stats' = c.stats
                   /\ log' = c.log
                   /\ effects' = c.effects
                   /\ UNCHANGED << result, pcClose, crashed, cliExit >>
           /\ pcMain' = IF r.who = "init" THEN "listening" ELSE pcMain
           /\ timer' = IF r.who = "init" THEN "set" ELSE timer
           /\ timerSetAt' = IF r.who = "init" THEN now ELSE timerSetAt
           /\ isStartPhaseComplete' = (isStartPhaseComplete \/ r.who = "early")
           /\ isMiddlePhaseComplete' = (isMiddlePhaseComplete \/ r.who = "middle")
           /\ reads' = IF r.who = "early" /\ MiddleDue(isMiddlePhaseComplete, r.runTime)
                       THEN Append(rest, Read("middle", Alive(ch), r.runTime))
                       ELSE rest
    /\ UNCHANGED << cfg, now, errorPending, ticks, outputs, summary, settled,
                    resolveCalls, closeLost >>
    /\ UNCHANGED storeVars

\* The child's 'close' event, emitted once the child has ended and its stdio
\* streams are closed: after every chunk was delivered to the 'data'
\* listeners, or discarded when there is none.  It reaches only the listeners
\* registered by then: in lightweight mode the observer's clearInterval and
\* the final check
\* of the main handler; in interval mode the main handler runs to the call of
\* updateSummaryFile.
CloseEvent ==
    /\ child = "exited"
    /\ ~crashed
    /\ ~errorPending
    /\ pcMain = "listening" /\ cfg.spawnOk => outputs = Len(cfg.output)
    /\ child' = "closed"
    /\ IF pcMain # "listening"
       THEN /\ closeLost' = TRUE
            /\ effects' = << >>
            /\ UNCHANGED << timer, reads, pcClose, stats, log, result, crashed,
                            cliExit >>
       ELSE IF Lightweight
       THEN /\ timer' = "cleared"
            /\ reads' = Append(reads, Read("final", FALSE, 0))
            /\ pcClose' = "awaitFinal"
            /\ effects' = << >>
            /\ UNCHANGED << closeLost, stats, log, result, crashed, cliExit >>
       ELSE \E syn \in {Synthesize(stats, log, childCode)} :
                /\ timer' = "cleared"
                /\ stats' = syn.stats
                /\ log' = syn.log
                /\ result' = syn.result
                /\ pcClose' = AfterSynthesize(syn)
                /\ crashed' \in UnhandledRejection(syn.threw)
                /\ cliExit' = IF crashed' THEN CliAfter(CliFailure) ELSE cliExit
                /\ effects' = syn.effects
                /\ UNCHANGED << closeLost, reads >>
    /\ UNCHANGED << cfg, now, pcMain, childCode, errorPending, samples,
                    isStartPhaseComplete, isMiddlePhaseComplete, timerSetAt, ticks,
                    outputs, killCalls, summary, settled, resolveCalls >>
    /\ UNCHANGED storeVars

\* resolve(result): settles the promise unless it is settled already.
Resolve(s) == IF s = "pending" THEN "resolved" ELSE s

\* Variant: the exception of updateSummaryFile leaves the handler.
SettleAfterSave_Rethrows(ok, s) == IF ok THEN Resolve(s) ELSE s

\* try { await updateSummaryFile(...) } catch { logger.error(...) }, then
\* resolve(result) either way.
SettleAfterSave(ok, s) == Resolve(s)

\* updateSummaryFile returns or throws (caught), then resolve(result).
SummaryUpdate(ok) ==
    /\ pcClose = "saving"
    /\ ~crashed
    /\ summary' = IF ok THEN Append(summary, SummaryEntry(result)) ELSE summary
    /\ settled' = SettleAfterSave(ok, settled)
    /\ cliExit' = IF settled = "pending" /\ settled' = "resolved"
                  THEN CliAfter(ProcessExit(CliExitCode(result)))
                  ELSE cliExit
    /\ resolveCalls' = resolveCalls + 1
    /\ pcClose' = "done"
    /\ effects' = << >>
    /\ UNCHANGED << cfg, now, pcMain, child, childCode, errorPending, reads, stats,
                    log, samples, isStartPhaseComplete, isMiddlePhaseComplete,
                    timer, timerSetAt, ticks, outputs, killCalls,
                    result, closeLost, crashed >>
    /\ UNCHANGED storeVars

Next ==
    \/ Start
    \/ \E t \in Instants : Advance(t)
    \/ ErrorEvent
    \/ \E c \in ExitCodes : ChildExit(c)
    \/ ChildOutput
    \/ IntervalTick
    \/ ObserverTick
    \/ \E i \in 1..(MaxTicks + 2), memKB \in KBValues : CompleteRead(i, memKB)
    \/ CloseEvent
    \/ \E ok \in BOOLEAN : SummaryUpdate(ok)

Spec == Init /\ [][Next]_vars

\* Runs in which the log file cannot be written at some kind of line.
LogFailInit ==
    /\ cfg \in { c \in Configs : c.logFails # "never"
                                 /\ c.output = << << Lit("rows loaded") >> >> }
    /\ RunInit
    /\ file = NoFile
    /\ calls = << >>
    /\ racers = NoRacers
    /\ env = NodeHost
    /\ detected = NotDetected

LogFailSpec == LogFailInit /\ [][Next]_vars

(***************************************************************************)
(* The summary store on its own: sequential calls of updateSummaryFile on  *)
(* one file, each call complete before the next starts.                    *)
(***************************************************************************)
\* The entries of two runs, as the close handler builds them.
RunEntries ==
    { SummaryEntry([exitCode |-> 0, durationMs |-> 200, avgMemoryMB |-> 3,
                    maxMemoryMB |-> 3, status |-> "SUCCESS"]),
      SummaryEntry([exitCode |-> 1, durationMs |-> 5600, avgMemoryMB |-> 2,
                    maxMemoryMB |-> 3, status |-> "FAILED"]) }

\* What the summary file may hold before the first call: nothing (no file),
\* text that is no JSON, `{}`, an object with a run list, `{"runs": null}`,
\* `{"runs": "x"}`, a top-level array, `null` and a number.
InitialFiles ==
    { NoFile,
      FileOf(FileText(FALSE, JsObject(<< JsArray(<< >>) >>))),
      FileOf(FileText(TRUE, JsObject(<< >>))),
      FileOf(FileText(TRUE, JsObject(<< JsNull >>))),
      FileOf(FileText(TRUE, JsObject(<< JsString >>))),
      FileOf(FileText(TRUE, JsArray(<< >>))),
      FileOf(FileText(TRUE, JsNull)),
      FileOf(FileText(TRUE, JsNumber)) }
    \cup { FileOf(FileText(TRUE, JsObject(<< JsArray(<< e >>) >>))) : e \in RunEntries }

StoreInit ==
    /\ cfg \in { c \in Configs : c.spawnOk /\ ~c.killOnLimit /\ c.checkInterval = 2
                                 /\ c.output = << >> }
    /\ RunInit
    /\ file \in InitialFiles
    /\ calls = << >>
    /\ racers = NoRacers
    /\ env = NodeHost
    /\ detected = NotDetected

\* One call of updateSummaryFile, from its first line to its return or throw.
UpdateCall(newRunData, io) ==
    /\ Len(calls) < MaxCalls
    /\ \E u \in {updateSummaryFile(file, newRunData, io)} :
          /\ file' = u.file
          /\ calls' = Append(calls, [before |-> file, entry |-> newRunData,
                                     io |-> io, threw |-> u.threw])
    /\ UNCHANGED << cfg, now, pcMain, pcClose, child, childCode, errorPending,
                    reads, stats, log, samples, isStartPhaseComplete,
                    isMiddlePhaseComplete, timer, timerSetAt, ticks, outputs,
                    killCalls, result, summary, settled, resolveCalls, closeLost,
                    crashed, effects >>
    /\ UNCHANGED << cliExit, racers, env, detected >>

StoreNext == \E newRunData \in RunEntries, io \in IOOutcomes : UpdateCall(newRunData, io)

StoreSpec == StoreInit /\ [][StoreNext]_vars

(***************************************************************************)
(* Two runs whose close handlers call updateSummaryFile on the same path   *)
(* at the same time. Each call is suspended at `await fs.mkdir`, at        *)
(* `await fs.readFile` and at `await fs.writeFile`, and the calls of the   *)
(* other run proceed in between. Nothing locks the file.                   *)
(***************************************************************************)
Racers == {1, 2}

Other(p) == CHOOSE q \in Racers : q # p

\* let summaryData: SummaryData = { runs: [] }
FreshSummary == JsObject(<< JsArray(<< >> ) >>)

\* The file after open(path, 'w'): it exists and is empty.
EmptyText == FileText(FALSE, JsNull)
Truncated == FileOf(EmptyText)

\* The summary files the two runs may find: none, or one with an earlier run.
RaceFiles ==
    { NoFile } \cup { FileOf(FileText(TRUE, JsObject(<< JsArray(<< e >>) >>))) : e \in RunEntries }

RaceInit ==
    /\ cfg \in { c \in Configs : c.spawnOk /\ ~c.killOnLimit /\ c.checkInterval = 2
                                 /\ c.output = << >> /\ c.logFails = "never" }
    /\ RunInit
    /\ file \in RaceFiles
    /\ calls = << >>
    /\ \E e \in [Racers -> RunEntries] :
          racers = [p \in Racers |->
                      [pc |-> "mkdir", entry |-> e[p], data |-> FreshSummary,
                       sawOther |-> FALSE, before |-> file]]
    /\ env = NodeHost
    /\ detected = NotDetected

\* The state of the run is left alone.
RunFrame ==
    /\ UNCHANGED << cfg, now, pcMain, pcClose, child, childCode, errorPending,
                    reads, stats, log, samples, isStartPhaseComplete,
                    isMiddlePhaseComplete, timer, timerSetAt, ticks, outputs,
                    killCalls, result, summary, settled, resolveCalls, closeLost,
                    crashed, effects >>
    /\ UNCHANGED cliExit

RaceFrame == RunFrame /\ UNCHANGED << calls, env, detected >>

\* `await fs.mkdir` returns; existsSync is evaluated in the same turn. With no
\* file the entry is pushed onto the fresh summary, else readFile is started.
RaceMkdir(p) ==
    /\ racers[p].pc = "mkdir"
    /\ racers' = [racers EXCEPT
                    ![p].pc = IF file.exists THEN "reading" ELSE "prepared",
                    ![p].data = IF file.exists THEN @ ELSE WithNewRun(@, racers[p].entry)]
    /\ UNCHANGED file
    /\ RaceFrame

\* `await fs.readFile` returns what the file holds now; text that does not
\* parse (the file another call has just truncated) leaves the fresh summary.
\* Then the entry is pushed.
RaceRead(p) ==
    /\ racers[p].pc = "reading"
    /\ \E parsed \in {JSONParse(file.text)} :
          racers' = [racers EXCEPT
                       ![p].pc = "prepared",
                       ![p].data = WithNewRun(IF parsed.threw THEN @ ELSE parsed.value,
                                              racers[p].entry),
                       ![p].sawOther = racers[Other(p)].pc = "done"]
    /\ UNCHANGED file
    /\ RaceFrame

\* fs.writeFile opens the file, which empties it.
RaceOpen(p) ==
    /\ racers[p].pc = "prepared"
    /\ racers' = [racers EXCEPT ![p].pc = "opened"]
    /\ file' = Truncated
    /\ RaceFrame

\* Variant: the text written also carries the entry the other call has
\* pushed onto its own copy and this call has not read.
TextToWrite_Merged(p) ==
    JSONStringify(IF racers[Other(p)].pc # "mkdir" /\ ~racers[p].sawOther
                  THEN WithNewRun(racers[p].data, racers[Other(p)].entry)
                  ELSE racers[p].data)

\* JSON.stringify(summaryData, null, 2): the copy this call has read and
\* pushed its entry onto.
TextToWrite(p) == JSONStringify(racers[p].data)

\* What the file holds once `text` is written from offset 0 by a call that
\* opened it: the text; or, when the other call has written since, the text
\* followed by what is left of the other's longer one, which parses no more.
AfterWrite(text) ==
    IF file = Truncated
    THEN { FileOf(text) }
    ELSE { FileOf(text), FileOf(FileText(FALSE, text.json)) }

\* The write of fs.writeFile is done and updateSummaryFile returns.
RaceWrite(p) ==
    /\ racers[p].pc = "opened"
    /\ racers' = [racers EXCEPT ![p].pc = "done"]
    /\ file' \in AfterWrite(TextToWrite(p))
    /\ RaceFrame

RaceNext ==
    \E p \in Racers : RaceMkdir(p) \/ RaceRead(p) \/ RaceOpen(p) \/ RaceWrite(p)

RaceSpec == RaceInit /\ [][RaceNext]_vars

(***************************************************************************)
(* Runtime detection. getRuntime reads three globals; the globals are      *)
(* whatever the host, or a test that arranges them, has defined.           *)
(***************************************************************************)
\* Every combination of the globals: Deno and Bun defined or not; process
\* undefined, an object with no `versions`, or an object whose `versions`
\* has a truthy `bun`, a truthy `node`, both or neither.
Environments ==
    { e \in [Deno : BOOLEAN, Bun : BOOLEAN, process : {"undefined", "bare", "versions"},
             bun : BOOLEAN, node : BOOLEAN] :
        e.process # "versions" => ~e.bun /\ ~e.node }

\* typeof process !== 'undefined' && process.versions?.bun
ProcessVersionsBun(e) == e.process = "versions" /\ e.bun

\* typeof process !== 'undefined' && process.versions?.node
ProcessVersionsNode(e) == e.process = "versions" /\ e.node

\* getRuntime of src/utils/get-runtime.ts, the one index.ts imports: the
\* node and unknown branches are commented out and 'node' is the default.
getRuntime(e) ==
    IF e.Deno THEN "deno"
    ELSE IF e.Bun \/ ProcessVersionsBun(e) THEN "bun"
    ELSE "node"

\* The copy of getRuntime the mocha test defines and tests.
getRuntimeOfTest(e) ==
    IF e.Deno THEN "deno"
    ELSE IF e.Bun \/ ProcessVersionsBun(e) THEN "bun"
    ELSE IF ProcessVersionsNode(e) THEN "node"
    ELSE "unknown"

RuntimeInit ==
    /\ cfg \in { c \in Configs : c.spawnOk /\ ~c.killOnLimit /\ c.checkInterval = 2
                                 /\ c.output = << >> /\ c.logFails = "never" }
    /\ RunInit
    /\ file = NoFile
    /\ calls = << >>
    /\ racers = NoRacers
    /\ env \in Environments
    /\ detected = NotDetected

\* The globals are defined and deleted, as each test does before its call.
Arrange(e) ==
    /\ e # env
    /\ env' = e
    /\ UNCHANGED detected
    /\ RunFrame
    /\ UNCHANGED << file, calls, racers >>

\* A call of getRuntime().
Detect ==
    /\ detected' = << [env |-> env, runtime |-> getRuntime(env),
                       ofTest |-> getRuntimeOfTest(env)] >>
    /\ detected' # detected
    /\ UNCHANGED env
    /\ RunFrame
    /\ UNCHANGED << file, calls, racers >>

RuntimeNext == Detect \/ \E e \in Environments : Arrange(e)

RuntimeSpec == RuntimeInit /\ [][RuntimeNext]_vars

(***************************************************************************)
(* Properties.                                                             *)
(***************************************************************************)
\* Sum and maximum of the residentMB of a sequence of samples (0 when empty).
RECURSIVE SumMB(_)
SumMB(s) == IF s = <<>> THEN 0 ELSE s[1].mb + SumMB(Tail(s))

RECURSIVE MaxMB(_)
MaxMB(s) == IF s = <<>> THEN 0 ELSE MaxOf(s[1].mb, MaxMB(Tail(s)))

\* The (elapsedSeconds, residentMB) pairs of the recorded samples, in order.
Recorded(s) == [i \in 1..Len(s) |-> [elapsed |-> s[i].elapsed, mb |-> s[i].mb]]

SamplesOf(who) == {i \in 1..Len(samples) : samples[i].who = who}

IsKillLine(line) == line[1] = Lit("Memory usage exceeded ")
IsCompletionLine(line) == line[1] = Lit("ETL job completed with exit code ")

\* The kill message was logged before the completion message.
KilledBeforeCompletion ==
    \E i, j \in 1..Len(log) : i < j /\ IsKillLine(log[i]) /\ IsCompletionLine(log[j])

\* a = round(num / den), halves rounding up: a - 1/2 <= num/den < a + 1/2.
IsRoundOf(a, num, den) == 2 * den * a - den <= 2 * num /\ 2 * num < 2 * den * a + den

\* Nothing is pending that a completion of the run could still come from.
Quiescent == reads = << >> /\ pcClose \in {"idle", "done"}

\* C1: with killOnLimit = true, once a sample above memoryLimitMB made the
\* supervisor kill the child (the child did not end on its own: its close
\* event carries no exit code), the RunResult has status KILLED and
\* exitCode 137.
C1_KilledRunReportsKilled ==
    (cfg.killOnLimit /\ Synthesized /\ childCode = NullCode /\ killCalls > 0)
        => (result.status = "KILLED" /\ result.exitCode = KillExitCode)

\* C2: with killOnLimit = false the kill is never issued and the run is never
\* marked KILLED, however far a sample exceeds the limit; the final status
\* and exit code follow from the exit code of the child's close event alone.
C2_NoKillWhenDisabled ==
    ~cfg.killOnLimit =>
        /\ killCalls = 0
        /\ stats.status # "KILLED"
        /\ Synthesized =>
              /\ childCode # NullCode
              /\ result.exitCode = childCode
              /\ result.status = (IF childCode = 0 THEN "SUCCESS" ELSE "FAILED")

\* C2 witness: a finished run without killOnLimit whose samples went above the
\* limit and whose child ended with code 0.
C2_Witness ==
    /\ ~cfg.killOnLimit
    /\ pcClose = "done"
    /\ \E i \in 1..Len(samples) : samples[i].mb > cfg.memoryLimit
    /\ result.status = "SUCCESS"

\* C3: a run whose spawn succeeded has resolved, with exactly one call of
\* resolve, whenever the child's close event has been emitted and nothing of
\* the run is pending any more, in both modes and wherever the close event
\* falls relative to the initial lightweight check.
C3_ResolvedOnceChildClosed ==
    (cfg.spawnOk /\ child = "closed" /\ Quiescent)
        => (settled = "resolved" /\ resolveCalls = 1)

\* C4: after every recorded sample the accumulator holds the count, the sum
\* and the maximum of the samples recorded so far, and the result built by
\* the close handler carries that maximum and the rounded mean (0 and 0 when
\* no sample was recorded).
C4_AccumulatorAndResult ==
    /\ [](/\ stats.sampleCount = Len(samples)
          /\ stats.totalMemoryMB = SumMB(samples)
          /\ stats.maxMemoryMB = MaxMB(samples))
    /\ [][(~Synthesized /\ Synthesized') =>
            /\ result'.maxMemoryMB = MaxMB(samples')
            /\ IF Len(samples') = 0
               THEN result'.avgMemoryMB = 0 /\ result'.maxMemoryMB = 0
               ELSE IsRoundOf(result'.avgMemoryMB, SumMB(samples'), Len(samples'))]_vars

\* C4 witness: a result built from the samples 3 MB and 2 MB, whose mean 2.5
\* rounds to 3.
C4_Witness ==
    /\ Synthesized
    /\ Len(samples) = 2
    /\ samples[1].mb = 3 /\ samples[2].mb = 2
    /\ result.avgMemoryMB = 3
    /\ result.maxMemoryMB = 3

\* C5: once the result has been built, no turn records a sample: the
\* accumulator and the sample lines of the log stay as they are.
C5_NoSampleAfterResult ==
    [][Synthesized =>
          /\ samples' = samples
          /\ stats'.sampleCount = stats.sampleCount
          /\ Len(extractMemoryData(log')) = Len(extractMemoryData(log))]_vars

\* C6: in every turn a kill comes after the limit check of its sample, which
\* comes after the log write of that sample's line, and no kill is issued
\* once the result has been built.
C6_SampleKillResultOrder ==
    /\ \A i \in 1..Len(effects) : effects[i] = "kill" =>
          \E j \in 1..(i - 1) :
              /\ effects[j] = "limit_check"
              /\ \E k \in 1..(j - 1) : effects[k] = "log_sample"
    /\ (Synthesized /\ \E i \in 1..Len(effects) : effects[i] = "kill") =>
          \E i, j \in 1..Len(effects) :
              i < j /\ effects[i] = "kill" /\ effects[j] = "synth"

\* C7: when spawning the child fails, memoryMonitor rejects, nothing is
\* resolved and no entry is appended to the summary store, in both modes.
C7_SpawnFailureOnlyRejects ==
    ~cfg.spawnOk =>
        /\ settled # "resolved"
        /\ summary = << >>
        /\ ~crashed
        /\ (pcMain # "call" /\ ~errorPending) => settled = "rejected"

\* C8: when the supervisor decided to kill but the child ended on its own
\* with code c, the result carries c, with status SUCCESS for c = 0 and
\* never status KILLED or the supervisor's 137.
C8_NaturalExitWins ==
    (Synthesized /\ killCalls > 0 /\ childCode \in ExitCodes) =>
        /\ result.exitCode = childCode
        /\ result.exitCode # KillExitCode
        /\ result.status # "KILLED"
        /\ childCode = 0 => result.status = "SUCCESS"

\* C8 witness: the kill was issued and logged before the close handler ran,
\* the child had ended on its own with code 0, and the result says SUCCESS.
C8_Witness ==
    /\ Synthesized
    /\ KilledBeforeCompletion
    /\ childCode = 0
    /\ result.status = "SUCCESS"
    /\ result.exitCode = 0

\* C9: in lightweight mode the early checkpoint and the steady-state
\* checkpoint each record at most one sample in a run.
C9_CheckpointsSampleOnce ==
    Lightweight =>
        /\ Cardinality(SamplesOf("early")) <= 1
        /\ Cardinality(SamplesOf("middle")) <= 1

\* C10: for a completed run, the points extractMemoryData reads from the log
\* are exactly the recorded samples, in the same order.
C10_LogReconstructsSamples ==
    pcClose = "done" => extractMemoryData(log) = Recorded(samples)

\* The runtime the stated precedence gives for globals e.
RuntimeByPrecedence(e) ==
    CASE e.Deno -> "deno"
      [] ~e.Deno /\ (e.Bun \/ (e.process = "versions" /\ e.bun)) -> "bun"
      [] ~e.Deno /\ ~(e.Bun \/ (e.process = "versions" /\ e.bun))
           /\ e.process = "versions" /\ e.node -> "node"
      [] OTHER -> "unknown"

\* C24: getRuntime returns 'deno' whenever Deno is defined, else 'bun' when
\* Bun is defined or process.versions.bun is set, else 'node' when
\* process.versions.node is set, else 'unknown', for every combination of
\* the globals.
C24_RuntimePrecedence ==
    detected # NotDetected =>
        detected[1].runtime = RuntimeByPrecedence(detected[1].env)

\* A completion line has been written to the log.
CompletionLogged == \E k \in 1..Len(log) : IsCompletionLine(log[k])

\* C21: the result is built, the closing lines are written and the summary
\* entry is appended only once the child's close event has been delivered,
\* and a turn that issues the kill does not build the result.
C21_ResultOnlyAfterClose ==
    /\ (pcClose # "idle" \/ result # NoResult \/ summary # << >> \/ CompletionLogged)
           => child = "closed"
    /\ (\E i \in 1..Len(effects) : effects[i] = "kill")
           => (\A j \in 1..Len(effects) : effects[j] # "synth")

\* C21 witness: the kill was issued on the running child, whose close event
\* is still to come: there is no result, no closing line and no entry yet.
C21_Witness ==
    /\ killCalls = 1
    /\ child = "exited"
    /\ childCode = NullCode
    /\ stats.status = "KILLED"
    /\ result = NoResult
    /\ ~CompletionLogged
    /\ summary = << >>

\* C13: a memory read that returns the sentinel 0 leaves sampleCount,
\* totalMemoryMB and maxMemoryMB as they were, records no sample, appends no
\* sample line and issues no kill, and the run goes on: whoever awaited the
\* check continues (memoryMonitor registers its listeners, the close handler
\* builds the result), nothing is rejected and nothing crashes.
C13_SentinelReadChangesNothing ==
    [][\A i \in 1..Len(reads) :
          CompleteRead(i, 0) =>
              /\ stats'.sampleCount = stats.sampleCount
              /\ stats'.totalMemoryMB = stats.totalMemoryMB
              /\ stats'.maxMemoryMB = stats.maxMemoryMB
              /\ samples' = samples
              /\ \A k \in (Len(log) + 1)..Len(log') : MatchPos(log'[k]) = 0
              /\ killCalls' = killCalls
              /\ settled' = settled
              /\ ~crashed'
              /\ reads[i].who = "init" => pcMain' = "listening"
              /\ reads[i].who = "final" => Synthesized']_vars

\* C13 witness: an interval run whose only tick read the sentinel (its read
\* is complete and no sample was recorded) and which then completed with the
\* child's exit code 0.
C13_Witness ==
    /\ ~Lightweight
    /\ ticks = 1
    /\ reads = << >>
    /\ samples = << >>
    /\ pcClose = "done"
    /\ settled = "resolved"
    /\ result.status = "SUCCESS"
    /\ result.maxMemoryMB = 0

\* C14: a log write that fails, at the header lines, a sample line, the
\* kill message, a captured output line or the closing lines, stops neither
\* the run nor its completion: for a spawned child memoryMonitor does not
\* reject, the host process does not crash, and the close handler is not
\* cut short before it has built the result.
C14_LogFailureDoesNotStopRun ==
    (cfg.spawnOk /\ cfg.logFails # "never") =>
        /\ settled # "rejected"
        /\ pcMain # "aborted"
        /\ ~crashed
        /\ pcClose # "threw"

\* C15: when the append to the summary store fails (the store is left as it
\* was), the close handler still resolves memoryMonitor, once, with the
\* result it had built, no field of it changed.
C15_ResolvesWhenAppendFails ==
    [][(cfg.spawnOk /\ pcClose = "saving" /\ pcClose' = "done" /\ summary' = summary)
          => /\ settled' = "resolved"
             /\ resolveCalls' = 1
             /\ result' = result
             /\ result' # NoResult]_vars

\* C15 witness: a run with samples completed with SUCCESS and resolved,
\* although nothing was appended to the summary store.
C15_Witness ==
    /\ pcClose = "done"
    /\ summary = << >>
    /\ samples # << >>
    /\ settled = "resolved"
    /\ result.status = "SUCCESS"
    /\ result.maxMemoryMB = MaxMB(samples)

\* C16: however often the kill is issued, on a running child or on one that
\* has ended already, nothing is raised and nothing is counted twice: the
\* host process does not crash, resolve is called at most once and the
\* summary store gets at most one entry, and a completed run has exactly
\* one result, stored as the only entry unless the append failed.
C16_KillIsIdempotent ==
    killCalls >= 1 =>
        /\ ~crashed
        /\ resolveCalls <= 1
        /\ Len(summary) <= 1
        /\ pcClose = "done" =>
              /\ resolveCalls = 1
              /\ settled = "resolved"
              /\ result # NoResult
              /\ summary \in { << >>, << SummaryEntry(result) >> }

\* C16 witness: a completed run in which the kill was issued twice, both
\* times on a child that had already ended on its own with code 0, with one
\* result and one summary entry.
C16_Witness ==
    /\ killCalls = 2
    /\ childCode = 0
    /\ pcClose = "done"
    /\ reads = << >>
    /\ resolveCalls = 1
    /\ summary = << SummaryEntry(result) >>

\* C17: an interval run whose child ends with code 0 before the first
\* interval tick has a result with status SUCCESS and exitCode 0 built from
\* at least one recorded sample, maxMemoryMB being that sample's value.
C17_ShortRunHasASample ==
    (~Lightweight /\ cfg.spawnOk /\ Synthesized /\ ticks = 0 /\ childCode = 0) =>
        /\ result.status = "SUCCESS"
        /\ result.exitCode = 0
        /\ samples # << >>
        /\ result.maxMemoryMB = samples[1].mb

\* The positions of the sample lines written by checkMemoryOnce in the log
\* (a captured output line starts with its stream's tag).
SampleLinesAt == { k \in 1..Len(log) : MatchesAt(log[k], 1) }

\* C18: with killOnLimit = true, once a sample above memoryLimitMB made the
\* supervisor issue the kill, the last sample line of the log shows a value
\* above the limit: no sample line at or below the limit follows the
\* breaching one.
C18_LastSampleLineIsTheBreach ==
    (cfg.killOnLimit /\ killCalls > 0) =>
        /\ SampleLinesAt # { }
        /\ \A k \in SampleLinesAt :
              (\A j \in SampleLinesAt : j <= k) => log[k][4].n > cfg.memoryLimit

\* C19: etl-run exits with the child's exit code when the child ended on
\* its own and memoryMonitor resolved, and with a non-zero status when
\* memoryMonitor rejected.
C19_CliExitMirrorsChild ==
    /\ (settled = "resolved" /\ childCode \in ExitCodes) => cliExit = << childCode >>
    /\ settled = "rejected" => (cliExit # << >> /\ cliExit[1] # 0)

\* C19 witness: the child ended on its own with the non-zero code 3 and
\* etl-run exited with 3.
C19_Witness ==
    /\ settled = "resolved"
    /\ childCode = 3
    /\ result.exitCode = 3
    /\ cliExit = << 3 >>

\* C20: the status of the result is one of SUCCESS, FAILED and KILLED, and
\* when the close handler builds the result it is SUCCESS for exitCode 0,
\* otherwise KILLED when the accumulator was marked KILLED before, else
\* FAILED.
C20_StatusRule ==
    [][(~Synthesized /\ Synthesized') =>
          /\ result'.status \in {"SUCCESS", "FAILED", "KILLED"}
          /\ result'.status = IF result'.exitCode = 0 THEN "SUCCESS"
                              ELSE IF stats.status = "KILLED" THEN "KILLED"
                              ELSE "FAILED"]_vars

\* The elapsed seconds a sample line of the log carries.
ElapsedAt(k) == log[k][2].n

\* C23: the elapsed values of the samples, and of the sample lines of the
\* log, never decrease, in whatever order the pending memory reads return.
C23_ElapsedNeverDecreases ==
    /\ \A i, j \in 1..Len(samples) : i <= j => samples[i].elapsed <= samples[j].elapsed
    /\ \A i, j \in SampleLinesAt : i <= j => ElapsedAt(i) <= ElapsedAt(j)

\* C23 witness: a read started at the first checkpoint (5.6 s) is still in
\* flight while a sample of the read started after it (at 61 s) is already
\* in the log, after an earlier sample line.
C23_Witness ==
    /\ \E i \in 1..Len(reads) : reads[i].who = "early" /\ reads[i].runTime < MiddlePhaseMs
    /\ \E j \in 1..Len(samples) : samples[j].who = "early" /\ samples[j].elapsed > 60
    /\ \E i, j \in SampleLinesAt : i < j /\ ElapsedAt(i) < ElapsedAt(j)

\* C25: when the run starts, the two header lines (job started, memory
\* limit) are written to the log before the child process is spawned.
C25_HeaderBeforeSpawn ==
    \A i \in 1..Len(effects) :
        effects[i] = "spawn" =>
            Cardinality({ j \in 1..(i - 1) : effects[j] = "header" }) = 2

\* The turn has recorded a sample / has issued the kill.
TurnRecorded == \E i \in 1..Len(effects) : effects[i] = "stats"
TurnKilled == \E i \in 1..Len(effects) : effects[i] = "kill"

\* C26: at each recorded sample the kill is issued if and only if
\* killOnLimit is true and the sample's rounded residentMB is strictly
\* greater than the limit; a sample equal to the limit never kills.
C26_KillIffOverLimit ==
    TurnRecorded =>
        (TurnKilled <=> (cfg.killOnLimit /\ samples[Len(samples)].mb > cfg.memoryLimit))

\* A read of the given check is pending.
Pending(who) == \E i \in 1..Len(reads) : reads[i].who = who

\* C27: in lightweight mode the first check is done before the observer
\* timer is armed, one check is done on close before the result is built,
\* and a run records at most four samples (start, early, steady-state,
\* final).
C27_LightweightCheckpoints ==
    Lightweight =>
        /\ timer # "unset" => ~Pending("init")
        /\ result # NoResult => ~Pending("final")
        /\ Len(samples) <= 4

\* C28: the kill signal is sent to the child at most once per run.
C28_KillSentAtMostOnce == killCalls <= 1

TurnDid(kind) == \E i \in 1..Len(effects) : effects[i] = kind

ValidJSON(f) == f.exists /\ ~JSONParse(f.text).threw

\* The run list stored in the file: the `runs` array of the object the file
\* parses to, empty when there is none.
RunsOf(f) ==
    IF ValidJSON(f) /\ f.text.json.t = "object" /\ f.text.json.runs # << >>
       /\ f.text.json.runs[1].t = "array"
    THEN f.text.json.runs[1].items
    ELSE << >>

\* The call sequence started from an absent file.
FromAbsentFile == calls # << >> => ~calls[1].before.exists

\* No file operation of any call so far failed.
NoIOFailure == \A i \in 1..Len(calls) : calls[i].io = "ok"

\* C11: starting from an absent summary file, after N sequential calls of
\* updateSummaryFile (none of whose file operations failed) the file is
\* valid JSON and its runs array holds the N entries in call order; this
\* holds after each call.
C11_SequentialAppends ==
    (calls # << >> /\ FromAbsentFile /\ NoIOFailure) =>
        /\ ValidJSON(file)
        /\ file.text.json.t = "object"
        /\ RunsOf(file) = [i \in 1..Len(calls) |-> calls[i].entry]
        /\ \A i \in 1..Len(calls) : ~calls[i].threw

\* C11 witness: three calls on an absent file, the entries not all equal.
C11_Witness ==
    /\ Len(calls) = 3
    /\ FromAbsentFile
    /\ NoIOFailure
    /\ calls[1].entry # calls[2].entry
    /\ Len(RunsOf(file)) = 3


\* The latest call, in the state it has led to.
LastCall == calls[Len(calls)]

\* C12: every call of updateSummaryFile keeps the runs stored before it: a
\* call that returns leaves the runs array of before with exactly its entry
\* appended at the end, whatever the file held (no file, text that does not
\* parse, JSON without a run list), and a call that throws leaves the stored
\* runs as they were.
C12_CallAppendsToStoredRuns ==
    [][Len(calls') > Len(calls) =>
          RunsOf(file') = IF LastCall'.threw
                          THEN RunsOf(file)
                          ELSE Append(RunsOf(file), LastCall'.entry)]_vars

\* Both concurrent calls of updateSummaryFile have returned.
BothRunsDone == racers # NoRacers /\ \A p \in Racers : racers[p].pc = "done"

\* The runs completed so far: those found in the file, and the two.
CompletedRuns == Len(RunsOf(racers[1].before)) + 2

\* C22: two runs that complete at the same time are not serialized, and an
\* update is lost: once both calls of updateSummaryFile have returned, the
\* runs array holds every completed run only if one call read the file
\* after the other had written it; whenever neither did, the file holds
\* fewer entries than runs have completed.
C22_ConcurrentRunsLoseAnUpdate ==
    BothRunsDone =>
        IF \E p \in Racers : racers[p].sawOther
        THEN ValidJSON(file) /\ Len(RunsOf(file)) = CompletedRuns
        ELSE Len(RunsOf(file)) < CompletedRuns

\* C22 witness: with no file at the start both calls have returned, their
\* entries differ, and the file is valid JSON whose runs array holds one.
C22_Witness ==
    /\ BothRunsDone
    /\ ~racers[1].before.exists
    /\ racers[1].entry # racers[2].entry
    /\ ValidJSON(file)
    /\ Len(RunsOf(file)) = 1

=============================================================================
